---- MODULE Spec2Model ----
(***************************************************************************)
(* Model of the realtime core of the Graffiti Wall API (src/main.py): the  *)
(* ConnectionManager registry, its broadcast fan-out and the per-session   *)
(* websocket handler.  One asyncio task runs per websocket; a task runs    *)
(* without interruption between two awaits, so each action below is the    *)
(* code between two suspension points of one handler.                      *)
(*                                                                         *)
(* The specifications share the actions and differ in their inputs:        *)
(*   Spec     fan-out: the texts that change the state, store available    *)
(*   SpecMsg  message handling: every text, the received text recorded     *)
(*   SpecPer  persistence: valid strokes whose append may fail             *)
(*   SpecSnap fan-out with the init envelopes recorded                     *)
(*   SpecJoin joining: the suspension in accept, the init envelopes        *)
(*   SpecOrd  ordering: two strokes of the same sender, append may fail    *)
(*   SpecHang fan-out where the sends to one websocket never complete,     *)
(*            with the fairness of the event loop                          *)
(* The variables removedEver, last, ended and snap are history: they       *)
(* record what was done and are read by no action.                         *)
(***************************************************************************)
EXTENDS Integers, Sequences, FiniteSets, TLC

\* ---------------------------------------------------------------- bounds
\* websocket clients and valid stroke submissions (websocket + HTTP) of
\* the fan-out, the message-handling, the persistence, the joining and the
\* ordering specification
NSess == 3
MaxStrokes == 1
NMsgSess == 2
MaxMsgStrokes == 1
NPerSess == 3
MaxPerStrokes == 2
NJoinSess == 2
MaxJoinStrokes == 1
NOrdSess == 2
MaxOrdStrokes == 2

Max(S) == CHOOSE x \in S : \A y \in S : y <= x
Sessions == 1..Max({NSess, NMsgSess, NPerSess, NJoinSess, NOrdSess})
NoSess == 0           \* "no connection" (iterator exhausted)
NullId == 0           \* sid = None
Limit == 1000         \* list_strokes(limit: int = 1000)

\* ------------------------------------------------------------ JSON values
JAbsent == [t |-> "absent"]
JNull == [t |-> "null"]
JNum(n) == [t |-> "num", v |-> n]
JStr(s) == [t |-> "str", v |-> s]
JList(l) == [t |-> "list", v |-> l]
Garbage == [t |-> "garbage"]          \* text that is not JSON

StrokeObj(p, c, z, u) == [t |-> "obj", points |-> p, color |-> c, size |-> z, user |-> u]
MsgObj(ty, st) == [t |-> "obj", type |-> ty, stroke |-> st]

Line == JList(<<JList(<<JNum(0), JNum(0)>>), JList(<<JNum(1), JNum(1)>>)>>)
Dot == JList(<<JList(<<JNum(5), JNum(5)>>)>>)

\* stroke payloads a client may send
GoodPayloads ==
  { StrokeObj(Line, JStr("#ff0055"), JNum(8), JAbsent),
    StrokeObj(Dot, JAbsent, JNum(100), JStr("u1")) }
BadPayloads ==
  { StrokeObj(Line, JStr("#ff0055"), JNum(500), JAbsent),
    StrokeObj(Line, JAbsent, JNum(0), JAbsent),
    StrokeObj(JAbsent, JStr("#ff0055"), JNum(8), JAbsent),
    StrokeObj(Line, JNum(7), JAbsent, JAbsent),
    JAbsent, JList(<<>>) }

\* texts a client may send over the websocket
NonObjectTexts == { JNull, JNum(1), JStr("stroke"), JList(<<>>) }
OtherTypeTexts == { MsgObj(JStr("ping"), JAbsent),
                    MsgObj(JAbsent, StrokeObj(Line, JAbsent, JAbsent, JAbsent)) }
StrokeTexts(P) == { MsgObj(JStr("stroke"), p) : p \in P }
\* the texts of the fan-out specification: the ones that change the state
CorePayloads == { StrokeObj(Line, JStr("#ff0055"), JNum(8), JAbsent) }
CoreTexts == StrokeTexts(CorePayloads) \cup {JList(<<>>)}
Texts == {Garbage} \cup NonObjectTexts \cup OtherTypeTexts \cup
         StrokeTexts(GoodPayloads) \cup StrokeTexts(BadPayloads)

\* ------------------------------------------------------------- StrokeModel
IsFloatList(x) == x.t = "list" /\ \A i \in 1..Len(x.v) : x.v[i].t = "num"
points_ok(x) == x.t = "list" /\ \A i \in 1..Len(x.v) : IsFloatList(x.v[i])
color_ok(x) == x.t \in {"absent", "str"}
size_ok_nomax(x) == x.t = "absent" \/ (x.t = "num" /\ x.v >= 1)
size_ok(x) == x.t = "absent" \/ (x.t = "num" /\ x.v >= 1 /\ x.v <= 100)
user_ok(x) == x.t \in {"absent", "null", "str"}

\* StrokeModel(**x) raises unless x is a mapping whose fields validate
StrokeModel_ok(x) ==
  /\ x.t = "obj"
  /\ points_ok(x.points)
  /\ color_ok(x.color)
  /\ size_ok(x.size)
  /\ user_ok(x.user)

\* stroke.model_dump(): the validated fields with the defaults filled in
model_dump(x) ==
  [points |-> x.points,
   color |-> IF x.color.t = "absent" THEN "#ff0055" ELSE x.color.v,
   size |-> IF x.size.t = "absent" THEN 8 ELSE x.size.v,
   user |-> IF x.user.t = "str" THEN x.user.v ELSE "None"]

\* ------------------------------------------------------ ConnectionManager
RECURSIVE list_remove(_, _)
\* list.remove(w): drops the first occurrence of w
list_remove(l, w) ==
  IF l = <<>> THEN <<>>
  ELSE IF Head(l) = w THEN Tail(l)
  ELSE <<Head(l)>> \o list_remove(Tail(l), w)

InList(l, w) == \E i \in 1..Len(l) : l[i] = w
ToSet(l) == { l[i] : i \in 1..Len(l) }

\* ConnectionManager.disconnect
disconnect_pop(act, w) ==
  IF act = <<>> THEN act ELSE SubSeq(act, 1, Len(act) - 1)
disconnect(act, w) == IF InList(act, w) THEN list_remove(act, w) ELSE act

RECURSIVE disconnect_all(_, _)
\* for d in dead: self.disconnect(d)
disconnect_all(act, dead) ==
  IF dead = <<>> THEN act
  ELSE disconnect_all(disconnect(act, Head(dead)), Tail(dead))

\* the list object the for loop of broadcast walks: self.active itself
iterated_copy(act, start) == start
iterated(act, start) == act

\* "if sender is not None and connection is sender: continue"
excluded_none(connection, sender) == FALSE
excluded(connection, sender) == sender # NoSess /\ connection = sender

RECURSIVE next_connection(_, _, _)
\* advance the list iterator from position idx to the next connection that
\* is sent to; cur = NoSess when the iterator is exhausted
next_connection(l, idx, sender) ==
  IF idx >= Len(l) THEN [idx |-> idx, cur |-> NoSess]
  ELSE IF excluded(l[idx + 1], sender) THEN next_connection(l, idx + 1, sender)
  ELSE [idx |-> idx + 1, cur |-> l[idx + 1]]

\* try: await connection.send_text(message) / except Exception: dead.append
collect_dead_never(dead, connection, ok) == dead
collect_dead(dead, connection, ok) ==
  IF ok THEN dead ELSE Append(dead, connection)

\* the registry after a pass of the loop body: "dead.append(connection)" only
\* collects, the loop removes nothing from self.active
mid_call_eager(act, dead) == disconnect_all(act, dead)
mid_call(act, dead) == act

\* try: sid = create_document(...) / except Exception: sid = None
sid_of_stale(ok, newid) == newid
sid_of(ok, newid) == IF ok THEN newid ELSE NullId

\* --------------------------------------------------------------- state
VARIABLES
  active,       \* manager.active: the list of registered websockets
  pc,           \* where each websocket_endpoint task is suspended
  bc,           \* the broadcast call each task is suspended in, if any
  store,        \* the "stroke" collection of the document store
  snap,         \* the strokes of the init envelope sent to each websocket
  nsub,         \* number of valid strokes submitted so far
  removedEver,  \* history: websockets that were removed from active
  last,         \* history: what the last step was (task, event, input)
  ended,        \* history: the broadcast call the last step completed
  rec           \* which of snap, last, ended this specification records

vars == <<active, pc, bc, store, snap, nsub, removedEver, last, ended, rec>>

Zero == [t \in Sessions |-> 0]
NoMsg == [type |-> "none"]
NoData == [t |-> "none"]
\* a broadcast call: its arguments (msg, sender), its locals (idx: position
\* of the list iterator, dead, cur: the connection whose send is awaited)
\* and its history (start: the registry when the call began, att: sends
\* started per connection, fail: connections whose send raised, stored:
\* whether create_document returned for the stroke)
NoBc == [sender |-> NoSess, msg |-> NoMsg, idx |-> 0, dead |-> <<>>,
         cur |-> NoSess, start |-> <<>>, att |-> Zero, fail |-> {},
         stored |-> TRUE]

NoEvent == [who |-> NoSess, data |-> NoData, store_ok |-> TRUE]
\* the text a task (NoSess: the HTTP endpoint) has just received and whether
\* the store was available to it
Event(s, data, ok) ==
  IF "last" \in rec THEN [who |-> s, data |-> data, store_ok |-> ok]
  ELSE NoEvent
Ended(b) == IF "ended" \in rec THEN [b EXCEPT !.cur = NoSess] ELSE NoBc
\* the init envelope whose send was started for a websocket: its strokes and
\* whether the store answered the read they come from
NoSnap == [sent |-> FALSE, db_ok |-> TRUE, strokes |-> <<>>]
Snapshot(db_ok, l) ==
  IF "snap" \in rec THEN [sent |-> TRUE, db_ok |-> db_ok, strokes |-> l]
  ELSE NoSnap

Start(r) ==
  /\ rec = r
  /\ active = <<>>
  /\ pc = [s \in Sessions |-> "idle"]
  /\ bc = [s \in Sessions |-> NoBc]
  /\ store = <<>>
  /\ snap = [s \in Sessions |-> NoSnap]
  /\ nsub = 0
  /\ removedEver = {}
  /\ last = NoEvent
  /\ ended = NoBc

Init == Start({"ended"})
InitMsg == Start({"last", "ended"})
InitPer == Start({"ended"})
InitSnap == Start({"snap", "ended"})
InitJoin == Start({"snap", "ended"})
InitOrd == Start({"ended"})

\* serialize_doc: _id becomes the string id
serialize_doc(doc) == [id |-> doc.id, stroke |-> doc.stroke]

\* get_documents("stroke", {}, limit)
get_documents(limit) ==
  [i \in 1..(IF Len(store) < limit THEN Len(store) ELSE limit) |-> store[i]]

\* list_strokes(): [] when db is None, else the serialized documents; in
\* websocket_endpoint "except Exception: initial = []" gives [] as well
list_strokes_stale(db_ok) ==
  [i \in 1..Len(get_documents(Limit)) |-> serialize_doc(get_documents(Limit)[i])]
list_strokes(db_ok) ==
  IF db_ok THEN [i \in 1..Len(get_documents(Limit)) |-> serialize_doc(get_documents(Limit)[i])]
  ELSE <<>>

\* create_document("stroke", fields): the new document and its id
new_id == Len(store) + 1
create_document(fields) == Append(store, [id |-> new_id, stroke |-> fields])

\* "except WebSocketDisconnect: manager.disconnect(websocket)"
OwnDisconnect(s) ==
  LET act2 == disconnect(active, s) IN
  /\ active' = act2
  /\ removedEver' = removedEver \cup (ToSet(active) \ ToSet(act2))
  /\ pc' = [pc EXCEPT ![s] = "closed"]

\* an exception that is not a WebSocketDisconnect ends the handler uncaught
Uncaught(s) ==
  /\ pc' = [pc EXCEPT ![s] = "crashed"]
  /\ UNCHANGED <<active, removedEver>>

\* ConnectionManager.connect before "await websocket.accept()": the registry
\* is not touched
pre_accept_early(act, w) == Append(act, w)
pre_accept(act, w) == act

\* "self.active.append(websocket)"
registered_twice(act, w) == Append(Append(act, w), w)
registered_front(act, w) == <<w>> \o act
registered(act, w) == Append(act, w)

\* websocket_endpoint up to "await websocket.accept()", when accept suspends
WsAccept(s) ==
  /\ UNCHANGED rec
  /\ pc[s] = "idle"
  /\ \A t \in Sessions : t < s => pc[t] # "idle"
  /\ pc' = [pc EXCEPT ![s] = "accepting"]
  /\ active' = pre_accept(active, s)
  /\ last' = NoEvent
  /\ ended' = NoBc
  /\ UNCHANGED <<bc, store, snap, nsub, removedEver>>

\* websocket_endpoint from the return of accept (or from its call, when it
\* does not suspend) up to the await of the init send_text: the rest of
\* manager.connect, list_strokes, send_text started
WsConnect(s) ==
  /\ UNCHANGED rec
  /\ pc[s] \in {"idle", "accepting"}
  \* websockets are numbered in the order in which they arrive
  /\ \A t \in Sessions : t < s => pc[t] # "idle"
  /\ \/ \* websocket.accept() raises: the handler ends before being registered
        /\ pc' = [pc EXCEPT ![s] = "crashed"]
        /\ last' = NoEvent
        /\ UNCHANGED <<active, snap>>
     \/ \E db_ok \in BOOLEAN :
        /\ active' = registered(active, s)
        /\ snap' = [snap EXCEPT ![s] = Snapshot(db_ok, list_strokes(db_ok))]
        /\ pc' = [pc EXCEPT ![s] = "init"]
        /\ last' = NoEvent
  /\ ended' = NoBc
  /\ UNCHANGED <<bc, store, nsub, removedEver>>

\* the init send_text returns or raises
WsInitSent(s) ==
  /\ UNCHANGED rec
  /\ pc[s] = "init"
  /\ \/ /\ pc' = [pc EXCEPT ![s] = "recv"]
        /\ UNCHANGED <<active, removedEver>>
     \/ OwnDisconnect(s)
     \/ Uncaught(s)
  /\ last' = NoEvent
  /\ ended' = NoBc
  /\ UNCHANGED <<bc, store, snap, nsub>>

\* "await manager.broadcast(...)": the handler is suspended with the call
awaiting_send_detached == "recv"
awaiting_send == "sending"

\* the for loop of broadcast from iterator position b.idx to its next await,
\* or to the end of the call (dead removal and return to the receive loop)
BroadcastRun(s, b) ==
  LET nx == next_connection(iterated(active, b.start), b.idx, b.sender) IN
  IF nx.cur # NoSess
  THEN /\ pc' = [pc EXCEPT ![s] = awaiting_send]
       /\ bc' = [bc EXCEPT ![s] = [b EXCEPT !.idx = nx.idx, !.cur = nx.cur,
                                             !.att[nx.cur] = @ + 1]]
       /\ ended' = NoBc
       /\ active' = mid_call(active, b.dead)
       /\ UNCHANGED removedEver
  ELSE LET act2 == disconnect_all(active, b.dead) IN
       /\ active' = act2
       /\ removedEver' = removedEver \cup (ToSet(active) \ ToSet(act2))
       /\ pc' = [pc EXCEPT ![s] = "recv"]
       /\ bc' = [bc EXCEPT ![s] = NoBc]
       /\ ended' = Ended(b)

\* json.loads(data)
json_loads_ok(data) == data.t # "garbage"

\* payload.get("stroke", {})
get_stroke(payload) ==
  IF payload.stroke.t = "absent" THEN [t |-> "obj", points |-> JAbsent,
       color |-> JAbsent, size |-> JAbsent, user |-> JAbsent]
  ELSE payload.stroke

\* the body of the receive loop for one text, up to the first await of the
\* broadcast: "loop" (back to receive_text), "raise" or "stroke"
handle(data) ==
  IF ~json_loads_ok(data) THEN "loop"
  ELSE IF data.t # "obj" THEN "raise"
  ELSE IF ~(data.type.t = "str" /\ data.type.v = "stroke") THEN "loop"
  ELSE IF ~StrokeModel_ok(get_stroke(data)) THEN "loop"
  ELSE "stroke"

\* one turn of the receive loop on a text of T; K bounds the valid strokes,
\* F is the set of outcomes of create_document (TRUE: stored, FALSE: raised)
WsReceiveText(s, T, K, F) ==
  /\ UNCHANGED rec
  /\ pc[s] = "recv"
  /\ \E data \in T :
       \/ /\ handle(data) = "loop"
          /\ last' = Event(s, data, TRUE)
          /\ ended' = NoBc
          /\ UNCHANGED <<active, pc, removedEver, bc, store, nsub>>
       \/ /\ handle(data) = "raise"
          \* payload.get raises AttributeError
          /\ Uncaught(s)
          /\ last' = Event(s, data, TRUE)
          /\ ended' = NoBc
          /\ UNCHANGED <<bc, store, nsub>>
       \/ /\ handle(data) = "stroke"
          /\ nsub < K
          /\ \E store_ok \in F :
               LET fields == model_dump(get_stroke(data))
                   sid == sid_of(store_ok, new_id)
                   message == [type |-> "stroke", stroke |-> fields, id |-> sid]
                   b == [NoBc EXCEPT !.sender = s, !.msg = message,
                                     !.start = active, !.stored = store_ok]
               IN /\ last' = Event(s, data, store_ok)
                  /\ nsub' = nsub + 1
                  /\ store' = IF store_ok THEN create_document(fields) ELSE store
                  /\ BroadcastRun(s, b)
  /\ UNCHANGED snap

\* receive_text raises
WsReceiveRaise(s) ==
  /\ UNCHANGED rec
  /\ pc[s] = "recv"
  /\ \/ OwnDisconnect(s)
     \/ Uncaught(s)
  /\ last' = NoEvent
  /\ ended' = NoBc
  /\ UNCHANGED <<bc, store, snap, nsub>>

\* send_text of the broadcast returns (ok) or raises (~ok)
BroadcastSendDone(s) ==
  /\ UNCHANGED rec
  /\ pc[s] = "sending"
  /\ \E ok \in BOOLEAN :
       LET c == bc[s].cur
           b == [bc[s] EXCEPT !.dead = collect_dead(@, c, ok),
                              !.fail = IF ok THEN @ ELSE @ \cup {c}]
       IN BroadcastRun(s, b)
  /\ last' = NoEvent
  /\ UNCHANGED <<store, snap, nsub>>

\* POST /api/strokes: the body is validated by StrokeModel, then stored
create_stroke(P, K) ==
  /\ UNCHANGED rec
  /\ \E x \in P :
       \/ /\ ~StrokeModel_ok(x)
          /\ last' = Event(NoSess, MsgObj(JStr("stroke"), x), TRUE)
          /\ UNCHANGED <<store, nsub>>
       \/ /\ StrokeModel_ok(x)
          /\ nsub < K
          /\ last' = Event(NoSess, MsgObj(JStr("stroke"), x), TRUE)
          /\ nsub' = nsub + 1
          /\ store' = create_document(model_dump(x))
  /\ ended' = NoBc
  /\ UNCHANGED <<active, pc, bc, snap, removedEver>>

\* the fan-out specification: the store is available, the texts are the
\* ones that change the state
FanSessions == 1..NSess
Next ==
  \/ \E s \in FanSessions : WsConnect(s)
  \/ \E s \in FanSessions : WsInitSent(s)
  \/ \E s \in FanSessions : WsReceiveText(s, CoreTexts, MaxStrokes, {TRUE})
  \/ \E s \in FanSessions : WsReceiveRaise(s)
  \/ \E s \in FanSessions : BroadcastSendDone(s)
  \/ create_stroke(CorePayloads, MaxStrokes)

Spec == Init /\ [][Next]_vars

\* the same with the init envelope of each websocket recorded
SpecSnap == InitSnap /\ [][Next]_vars

\* the fan-out specification in which "await connection.send_text(message)"
\* to the websocket Hung never returns nor raises (broadcast sets no
\* timeout); the event loop resumes a task whose awaited send has completed
Hung == 2
HangSendDone(s) == bc[s].cur # Hung /\ BroadcastSendDone(s)
NextHang ==
  \/ \E s \in FanSessions : WsConnect(s)
  \/ \E s \in FanSessions : WsInitSent(s)
  \/ \E s \in FanSessions : WsReceiveText(s, CoreTexts, MaxStrokes, {TRUE})
  \/ \E s \in FanSessions : WsReceiveRaise(s)
  \/ \E s \in FanSessions : HangSendDone(s)
  \/ create_stroke(CorePayloads, MaxStrokes)

SpecHang ==
  /\ Init /\ [][NextHang]_vars
  /\ \A s \in FanSessions : WF_vars(HangSendDone(s)) /\ WF_vars(WsInitSent(s))

\* the message-handling specification: every text, the texts are recorded
MsgSessions == 1..NMsgSess
NextMsg ==
  \/ \E s \in MsgSessions : WsConnect(s)
  \/ \E s \in MsgSessions : WsInitSent(s)
  \/ \E s \in MsgSessions : WsReceiveText(s, Texts, MaxMsgStrokes, {TRUE})
  \/ \E s \in MsgSessions : WsReceiveRaise(s)
  \/ \E s \in MsgSessions : BroadcastSendDone(s)
  \/ create_stroke(GoodPayloads \cup BadPayloads, MaxMsgStrokes)

SpecMsg == InitMsg /\ [][NextMsg]_vars

\* the persistence specification: the valid strokes, whose append may fail
PerSessions == 1..NPerSess
NextPer ==
  \/ \E s \in PerSessions : WsConnect(s)
  \/ \E s \in PerSessions : WsInitSent(s)
  \/ \E s \in PerSessions : WsReceiveText(s, StrokeTexts(GoodPayloads), MaxPerStrokes, BOOLEAN)
  \/ \E s \in PerSessions : WsReceiveRaise(s)
  \/ \E s \in PerSessions : BroadcastSendDone(s)
  \/ create_stroke(GoodPayloads, MaxPerStrokes)

SpecPer == InitPer /\ [][NextPer]_vars

\* the joining specification: accept may suspend, the init envelopes are
\* recorded, the snapshot read may fail
JoinSessions == 1..NJoinSess
NextJoin ==
  \/ \E s \in JoinSessions : WsAccept(s)
  \/ \E s \in JoinSessions : WsConnect(s)
  \/ \E s \in JoinSessions : WsInitSent(s)
  \/ \E s \in JoinSessions : WsReceiveText(s, CoreTexts, MaxJoinStrokes, {TRUE})
  \/ \E s \in JoinSessions : WsReceiveRaise(s)
  \/ \E s \in JoinSessions : BroadcastSendDone(s)
  \/ create_stroke(CorePayloads, MaxJoinStrokes)

SpecJoin == InitJoin /\ [][NextJoin]_vars

\* the ordering specification: one payload for the websockets, whose append
\* may fail, and another for the HTTP endpoint
OrdSessions == 1..NOrdSess
NextOrd ==
  \/ \E s \in OrdSessions : WsConnect(s)
  \/ \E s \in OrdSessions : WsInitSent(s)
  \/ \E s \in OrdSessions : WsReceiveText(s, StrokeTexts(CorePayloads), MaxOrdStrokes, BOOLEAN)
  \/ \E s \in OrdSessions : WsReceiveRaise(s)
  \/ \E s \in OrdSessions : BroadcastSendDone(s)
  \/ create_stroke(GoodPayloads \ CorePayloads, MaxOrdStrokes)

SpecOrd == InitOrd /\ [][NextOrd]_vars

\* ------------------------------------------------------------ properties
Registered(w) == InList(active, w)

\* the websockets that were in the registry from the start of the completed
\* call b until after its end (so their send did not fail), the sender apart
StayedIn(b) == (ToSet(b.start) \cap ToSet(active)) \ {b.sender}

\* C1: every session that is in the registry from the start of a broadcast
\* until its end, the submitter apart, is sent the stroke envelope exactly
\* once by that call (and so receives exactly one when its send succeeds),
\* whatever other tasks do to the registry while the call is suspended.
C1_ExactlyOnce ==
  ended.sender # NoSess =>
    \A B \in StayedIn(ended) : ended.att[B] = 1

\* C2: no stroke envelope is ever sent to the session that submitted it:
\* the connection a broadcast is sending to is never its sender, and a
\* completed call has started no send to its sender.
C2_NoEcho ==
  /\ \A s \in Sessions : pc[s] = "sending" =>
       /\ bc[s].sender = s
       /\ bc[s].cur # s
       /\ bc[s].att[s] = 0
  /\ ended.sender # NoSess => ended.att[ended.sender] = 0

C2_Witness ==
  /\ ended.sender # NoSess
  /\ Registered(ended.sender)
  /\ ended.idx > 1
  /\ \E B \in Sessions : ended.att[B] = 1 /\ B \notin ended.fail

\* C3: in a broadcast call in which some send failed, every other session
\* of the registry, the sender apart, has been attempted when the call ends.
C3_FailureDoesNotStopFanOut ==
  (ended.sender # NoSess /\ ended.fail # {}) =>
    \A B \in StayedIn(ended) : ended.att[B] >= 1

\* C4: the step that ends a broadcast call removes from the registry exactly
\* the sessions whose send failed in that call: they are absent afterwards,
\* every other session (the sender included) keeps its place, none is added.
C4_RemovesExactlyFailed ==
  [][ended'.sender # NoSess =>
       /\ active' = SelectSeq(active, LAMBDA w : w \notin ended'.fail)
       /\ ended'.sender \notin ended'.fail]_vars

C4_Witness ==
  /\ ended.sender # NoSess
  /\ Registered(ended.sender)
  /\ ended.fail # {}
  /\ \E B \in Sessions : ended.att[B] = 1 /\ B \notin ended.fail /\ Registered(B)

C6_NoStrokeForRemoved ==
  /\ \A s \in Sessions : pc[s] = "sending" => InList(bc[s].start, s)
  /\ ended.sender # NoSess => InList(ended.start, ended.sender)

\* C7: a session whose handler has ended is not in the registry.
C7_EndedNotRegistered ==
  \A s \in Sessions : pc[s] \in {"closed", "crashed"} => ~Registered(s)

\* C8: after receiving a text that is not a JSON object (not JSON at all, or
\* a list, number, string or null) the handler is back in its receive loop.
C8_UnparseableKeepsSession ==
  (last.who # NoSess /\ last.data.t \notin {"obj", "none"}) =>
     /\ pc[last.who] = "recv"
     /\ ended = NoBc

\* the stroke payload of a text fails the schema: not an object, points
\* missing or not a list, size outside [1,100], color not a string
FailsSchema(x) ==
  \/ x.t # "obj"
  \/ x.points.t # "list"
  \/ x.size.t = "num" /\ (x.size.v < 1 \/ x.size.v > 100)
  \/ x.color.t \notin {"absent", "str"}
Rejected(data) ==
  /\ data.t = "obj"
  /\ \/ data.type.t # "str"
     \/ data.type.v # "stroke"
     \/ FailsSchema(data.stroke)
StoredValid ==
  \A i \in 1..Len(store) :
    /\ store[i].stroke.points.t = "list"
    /\ store[i].stroke.size >= 1 /\ store[i].stroke.size <= 100

\* C9: a text whose type is not "stroke" or whose stroke fails the schema
\* changes neither the store nor the registry, starts no broadcast and leaves
\* the handler in its receive loop; every stored stroke satisfies the schema.
C9_RejectedNoEffect ==
  /\ []StoredValid
  /\ [][(last'.who # NoSess /\ Rejected(last'.data)) =>
          /\ store' = store /\ active' = active /\ bc' = bc
          /\ ended' = NoBc
          /\ pc' = pc /\ pc[last'.who] = "recv"]_vars

C9_Witness ==
  /\ last.who # NoSess
  /\ last.data.t = "obj" /\ last.data.type = JStr("stroke")
  /\ last.data.stroke.t = "obj" /\ last.data.stroke.size = JNum(500)
  /\ pc[last.who] = "recv" /\ Registered(last.who)
  /\ Len(store) = 1 /\ nsub = 1

\* C10: when the append of a valid stroke fails, the broadcast of its
\* envelope, with id null, sends it to every other session of the registry
\* and not to the submitter, whose handler is then back in its receive loop.
C10_PersistFailureStillBroadcast ==
  (ended.sender # NoSess /\ ~ended.stored) =>
     /\ ended.msg.type = "stroke" /\ ended.msg.id = NullId
     /\ ended.att[ended.sender] = 0
     /\ pc[ended.sender] = "recv"
     /\ \A B \in StayedIn(ended) : ended.att[B] = 1

\* C11: a join never fails because of the snapshot read: when the read of the
\* recent strokes fails or the store is unavailable, the step that registers
\* the session starts the send of an init envelope with an empty strokes
\* list, and the session is in the registry on its way to the receive loop.
C11_JoinSurvivesReadFailure ==
  [][\A s \in Sessions :
       (~snap[s].sent /\ snap'[s].sent /\ ~snap'[s].db_ok) =>
         /\ snap'[s].strokes = <<>>
         /\ Registered(s)'
         /\ pc'[s] = "init"]_vars

\* a session joined with an empty snapshot while the store held a stroke and
\* is now in the receive loop
C11_Witness ==
  \E s \in Sessions :
    /\ snap[s].sent /\ ~snap[s].db_ok /\ snap[s].strokes = <<>>
    /\ store # <<>>
    /\ pc[s] = "recv" /\ Registered(s)

\* the append of the stroke of call b was attempted before b was started: the
\* envelope carries the id of the stored document when the append returned,
\* and null exactly when it raised
PersistedFirst(b) ==
  b.sender # NoSess =>
    /\ b.msg.type = "stroke"
    /\ IF b.stored
       THEN /\ b.msg.id # NullId
            /\ b.msg.id \in 1..Len(store)
            /\ store[b.msg.id] = [id |-> b.msg.id, stroke |-> b.msg.stroke]
       ELSE b.msg.id = NullId

\* C12: whenever a stroke envelope is being sent or has been sent, the append
\* to the store was attempted before the first send started: the envelope's
\* id is the id the store returned when the append succeeded (the document
\* is in the store), and it is null only when the append failed.
C12_PersistBeforeBroadcast ==
  /\ PersistedFirst(ended)
  /\ \A s \in Sessions : pc[s] = "sending" => PersistedFirst(bc[s])

\* a call whose append failed has just completed with a send, while a call
\* whose append succeeded is awaiting a send
C12_Witness ==
  /\ ended.sender # NoSess /\ ~ended.stored
  /\ \E t \in Sessions : ended.att[t] = 1
  /\ \E s \in Sessions : pc[s] = "sending" /\ bc[s].stored

\* removing w from registry act, judged against act without w
RemovesOnly(act, w) ==
  LET once == disconnect(act, w) IN
  /\ once = SelectSeq(act, LAMBDA x : x # w)
  /\ ~InList(act, w) => once = act
  /\ Len(act) - Len(once) \in {0, 1}
  /\ disconnect(once, w) = once
  /\ disconnect_all(once, <<w>>) = once
  /\ disconnect_all(act, <<w, w>>) = once

\* a step in which a session that is not registered takes its disconnect
\* path, or a broadcast ends whose failed sessions are not registered, leaves
\* the registry as it is
SecondRemovalIsNoOp ==
  /\ \A r \in Sessions :
       (~Registered(r) /\ pc[r] # "closed" /\ pc'[r] = "closed")
         => (active' = active)
  /\ (ended'.sender # NoSess /\ ended'.fail \cap ToSet(active) = {})
       => (active' = active)

\* C13: removal from the registry is idempotent and never an error: removing
\* an absent session leaves the registry unchanged, and removing a session
\* twice (by the failed-send path of a broadcast and by the session's own
\* disconnect path, in either order) is the same as removing it once: the
\* membership count drops by at most one and no other session is removed.
C13_RemoveIdempotent ==
  /\ [](\A w \in Sessions : RemovesOnly(active, w))
  /\ [][SecondRemovalIsNoOp]_vars

\* a broadcast has just ended whose failed session had already been removed
\* by its own disconnect path, other sessions being registered
C13_Witness ==
  /\ ended.sender # NoSess
  /\ \E r \in ended.fail : pc[r] = "closed" /\ r \in removedEver
  /\ Len(active) >= 2

\* C14: one session whose send never completes must not hang the fan-out:
\* a broadcast that is awaiting a send still comes to its end (every other
\* live session has been attempted) and the submitter's handler returns to
\* receiving.
C14_HungSendDoesNotBlock ==
  \A s \in FanSessions : (pc[s] = "sending") ~> (pc[s] = "recv")

\* call b has started at most one send per session, exactly one to each
\* session whose send failed
AtMostOnce(b) ==
  /\ \A t \in Sessions : b.att[t] <= 1
  /\ \A f \in b.fail : b.att[f] = 1

\* C15: within one broadcast call delivery is attempted at most once per
\* session: a session whose send failed is not retried and no session is sent
\* the envelope twice, also when other tasks add to or remove from the
\* registry while the call is suspended.
C15_AtMostOncePerCall ==
  /\ AtMostOnce(ended)
  /\ \A s \in Sessions : AtMostOnce(bc[s])

\* a call has ended in which a send failed and a session that joined during
\* the call was sent the envelope
C15_Witness ==
  /\ ended.sender # NoSess /\ ended.fail # {}
  /\ \E j \in Sessions :
       Registered(j) /\ ~InList(ended.start, j) /\ ended.att[j] = 1

\* a step of a broadcast call that leaves the call suspended in a send
\* removes nothing from the registry
MidCallRemovesNothing ==
  \A s \in Sessions :
    (bc'[s] # bc[s] /\ pc'[s] = "sending") => (active' = active)

\* the step that ends a call leaves none of its failed sessions registered
EndRemovesFailed ==
  ended'.sender # NoSess => (ended'.fail \cap ToSet(active') = {})

\* C16 as stated: removal of failed sessions is deferred: during its
\* iteration a call removes nothing, and each session whose send failed is
\* still in the registry, unless its own disconnect path removed it, until
\* the call has attempted every remaining session.
C16_FailedStayUntilEnd ==
  /\ [][MidCallRemovesNothing /\ EndRemovesFailed]_vars
  /\ [](\A s \in Sessions : pc[s] = "sending" =>
          \A d \in bc[s].fail : Registered(d) \/ pc[d] = "closed")

\* C16 amended: during its iteration a call removes nothing from the registry
\* and at its end none of its failed sessions is registered; until then a
\* failed session is in the registry unless another task removed it, which
\* is its own disconnect path or the end of another broadcast call.
C16_RemovalDeferred ==
  /\ [][MidCallRemovesNothing /\ EndRemovesFailed]_vars
  /\ [](\A s \in Sessions : pc[s] = "sending" =>
          \A d \in bc[s].fail : Registered(d) \/ d \in removedEver)

\* a call is still iterating while a session it failed to send to has been
\* removed by the end of another call, its own handler still running
C16_Witness ==
  \E s \in Sessions :
    /\ pc[s] = "sending"
    /\ \E d \in bc[s].fail :
         ~Registered(d) /\ d \in removedEver /\ pc[d] \in {"init", "recv", "sending"}

\* C17: each session is sent exactly one init envelope and it is the first
\* envelope sent to it: a session is in the registry, and a stroke send to it
\* has been started, only after its init send has been started, and the
\* init envelope once sent is never sent again.
C17_InitFirst ==
  /\ [](\A t \in Sessions :
          (Registered(t) \/ ended.att[t] > 0 \/ \E s \in Sessions : bc[s].att[t] > 0)
            => snap[t].sent)
  /\ [][\A t \in Sessions : snap[t].sent => (snap'[t] = snap[t])]_vars

\* a stroke is being sent to a session whose init send, started before, has
\* not completed yet
C17_Witness ==
  \E s, t \in Sessions :
    /\ pc[s] = "sending" /\ bc[s].cur = t /\ bc[s].att[t] = 1
    /\ pc[t] = "init" /\ snap[t].sent

\* the init envelope sent to J lists the document id
InSnapshot(J, id) ==
  \E i \in 1..Len(snap[J].strokes) : snap[J].strokes[i].id = id

\* C18: no stroke is missed by a joining session: when a broadcast of a
\* stroke that its handler appended to the store has ended, every other
\* session that joined with the store available, is still registered and
\* whose handler is running has the stroke in its init snapshot or was sent
\* it, the send succeeding, as a stroke envelope.
C18_NoStrokeMissed ==
  (ended.sender # NoSess /\ ended.stored) =>
    \A J \in Sessions \ {ended.sender} :
      (/\ Registered(J)
       /\ snap[J].sent /\ snap[J].db_ok
       /\ pc[J] \in {"init", "recv", "sending"})
      => \/ InSnapshot(J, ended.msg.id)
         \/ ended.att[J] >= 1 /\ J \notin ended.fail

\* a handler takes a stroke from its websocket only when it is in no
\* broadcast call: the persist and the whole broadcast of its previous
\* stroke have finished
SenderSequential ==
  \A s \in Sessions :
    (nsub' > nsub /\ bc'[s] # bc[s]) => (bc[s] = NoBc /\ pc[s] = "recv")

\* the store only grows at its end, the new document taking the next id
StoreAppendOnly ==
  \/ store' = store
  \/ /\ Len(store') = Len(store) + 1
     /\ SubSeq(store', 1, Len(store)) = store
     /\ store'[Len(store')].id = Len(store')

\* C19: the order of one sender is preserved: a handler does not receive its
\* next message until the persist and the whole broadcast of the previous
\* one have finished, so every send of its first stroke precedes every send
\* of its second, and the store records the first before the second.
C19_PerSenderOrder ==
  [][SenderSequential /\ StoreAppendOnly]_vars

\* the first websocket is sending its second stroke, both of its strokes
\* being stored in the order of submission, to a registered session that
\* has submitted nothing
C19_Witness ==
  /\ pc[1] = "sending" /\ bc[1].stored /\ bc[1].msg.id = 2 /\ bc[1].cur = 2
  /\ Len(store) = 2
  /\ \A i \in 1..2 : store[i] = [id |-> i, stroke |-> bc[1].msg.stroke]
  /\ pc[2] = "init" /\ Registered(2)

\* C20: registry membership is a set: in every reachable state each session
\* appears in the registry at most once; it is added once, by its own join,
\* and never added again after it was removed.
C20_RegistryIsSet ==
  /\ [](/\ \A i, j \in 1..Len(active) : active[i] = active[j] => i = j
        /\ removedEver \cap ToSet(active) = {})
  /\ [][\A s \in Sessions :
         (~Registered(s) /\ Registered(s)') =>
           (pc[s] \in {"idle", "accepting"} /\ pc'[s] = "init")]_vars

\* two sessions are registered after a third was removed
C20_Witness ==
  /\ Len(active) = 2
  /\ removedEver # {}
  /\ \E s \in Sessions : pc[s] = "closed" /\ ~Registered(s)

====
